---- MODULE Spec2Model ----
(***************************************************************************)
(* A model of scripts/update_dashboard.py: one run of main(), from the     *)
(* check of the mappings file to the write of dashboard_data.json.         *)
(*                                                                         *)
(* Conventions of the model                                                *)
(*   - a text line is the tuple of fields line.strip().split('\t') yields; *)
(*   - a reported percentage is an integer number of hundredths (5000 is   *)
(*     50.00), a reported score, average or loss an integer number of      *)
(*     ten-thousandths (9000 is 0.9000): the values after round(x, 2),     *)
(*     round(x, 4) and f"{x:.4f}"; a parsed score is an integer number of  *)
(*     hundred-thousandths (90000 is 0.9);                                 *)
(*   - the key string f"{h}\t{r}\t{t}" is the tuple <<h, r, t>>: no field  *)
(*     of a split line holds a tab, so the string determines the tuple;    *)
(*   - an id -> name dict is a set of <<id, name>> pairs.                  *)
(***************************************************************************)
EXTENDS Integers, Sequences, FiniteSets, TLC

VARIABLES
    pc,                    \* position of main()
    mappings_file,         \* data/processed/kg_mappings.json on disk
    synthetic_dir,         \* names of data/synthetic/generated*.txt on disk
    hash_collide,          \* keys the run's str hash maps to one value
    id_to_name,            \* line 32
    latest_file,           \* line 42 (0: not set)
    synthetic_triples,     \* line 43
    real_exists,           \* REAL_TRIPLES_PATH.exists(), line 61
    real_file,             \* lines of kg_triples_ids.txt, once opened
    ref_pos,               \* lines of real_file the loop has consumed
    real_triples_set,      \* line 57
    all_relations,         \* line 58
    novelty_check_active,  \* line 59
    metrics,               \* the locals of lines 80-128
    relation_freq,         \* line 102
    decoded_hypotheses,    \* line 130
    log_file,              \* data/processed/training_log.csv as read
    training,              \* current_epoch, current_d_loss, current_g_loss
    output                 \* what was written to dashboard_data.json, in order

vars == <<pc, mappings_file, synthetic_dir, hash_collide, id_to_name, latest_file,
          synthetic_triples, real_exists, real_file, ref_pos, real_triples_set,
          all_relations, novelty_check_active, metrics, relation_freq,
          decoded_hypotheses, log_file, training, output>>

---------------------------------------------------------------------------
(* Bounds of the model and constants of the program *)

MaxLines == 2           \* data lines of a small generated file
MaxRefLines == 2        \* lines of a reference file
MidN == 201             \* entries of the batch that is just over the sample cap
BigN == 20001           \* entries of the large batch
HypothesisCap == 200    \* line 132
DefaultVocabulary == 15 \* line 99

Min(a, b) == IF a < b THEN a ELSE b

Max(S) == CHOOSE x \in S : \A y \in S : y <= x

SeqsUpTo(S, n) == UNION {[1..k -> S] : k \in 0..n}

---------------------------------------------------------------------------
(* Strings: the alphabets, and the string operations the code applies *)

\* identifiers of the large batches; every one of them is also used as a
\* relation identifier there
Ids == <<"e01", "e02", "e03", "e04", "e05", "e06", "e07", "e08", "e09", "e10",
         "e11", "e12", "e13", "e14", "e15", "e16", "e17", "e18", "e19", "e20",
         "e21", "e22", "e23", "e24", "e25", "e26", "e27", "e28">>

\* every relation identifier of the model, in ascending (code point) order
RelOrder == <<"dblp:hasAuthor", "dblp:publishedInYear">> \o Ids \o <<"r1", "r2", "r3">>

\* float(s) succeeds (line 52)
IsFloat(s) == s \in {"0.9", "0.5", "0.12346"}

\* float(s), in hundred-thousandths
ParseFloat(s) == CASE s = "0.9" -> 90000
                   [] s = "0.5" -> 50000
                   [] s = "0.12346" -> 12346

\* t.isdigit() (line 123)
IsDigit(t) == t \in {"2021"}

\* "author" in t (line 124)
ContainsAuthor(t) == t \in {"author_42"}

\* r.replace("dblp:", "") (line 136)
StripDblp(r) == CASE r = "dblp:hasAuthor" -> "hasAuthor"
                  [] r = "dblp:publishedInYear" -> "publishedInYear"
                  [] OTHER -> r

\* relation_tail_rules.get(r) (lines 110-119), "" for None
RuleTail(r) == CASE r = "dblp:hasAuthor" -> "author"
                 [] r = "dblp:publishedInYear" -> "year"
                 [] OTHER -> ""

\* d.get(k, default) on a dict given as a set of pairs
Get(d, k, default) == IF \E p \in d : p[1] = k
                      THEN (CHOOSE p \in d : p[1] = k)[2]
                      ELSE default

\* f"{h}\t{r}\t{t}"
Key(h, r, t) == <<h, r, t>>

\* hash(key): a str hash is not injective. Only equality of hashes is ever
\* observed, so a hash value is represented by one key of its preimage.
Hash(k) == IF k \in hash_collide THEN CHOOSE c \in hash_collide : TRUE ELSE k

---------------------------------------------------------------------------
(* Arithmetic *)

\* round(n / d, .) of a value scaled by `scale`, half to even. Python rounds
\* the float nearest to the quotient; the two differ only where the exact
\* quotient is a tie, which no ratio of this model is.
RoundDiv(n, d, scale) ==
    LET q == (scale * n) \div d
        r == (scale * n) % d
    IN  IF 2 * r > d \/ (2 * r = d /\ q % 2 = 1) THEN q + 1 ELSE q

\* f"{score:.4f}", in ten-thousandths (line 146)
FormatScore(score) == RoundDiv(score, 10, 1)

\* the percentage with 100 for the empty case
Pct_DefaultHundred(n, d) == IF d > 0 THEN RoundDiv(n, d, 10000) ELSE 10000

\* round((n / d) * 100 if d > 0 else 0, 2), in hundredths
Pct(n, d) == IF d > 0 THEN RoundDiv(n, d, 10000) ELSE 0

---------------------------------------------------------------------------
(* The inputs a run may find on disk *)

\* kg_mappings.json: absent, not JSON (or not a JSON object), or an object
\* with or without the field "id2ent"
MappingFiles ==
    { [exists |-> FALSE, parses |-> FALSE, has_id2ent |-> FALSE, id2ent |-> {}],
      [exists |-> TRUE, parses |-> FALSE, has_id2ent |-> FALSE, id2ent |-> {}],
      [exists |-> TRUE, parses |-> TRUE, has_id2ent |-> FALSE, id2ent |-> {}],
      [exists |-> TRUE, parses |-> TRUE, has_id2ent |-> TRUE,
       id2ent |-> {<<"e1", "Alice">>, <<"e2", "Bob">>}] }

\* data/synthetic: no generated*.txt, or generated_1.txt and generated_2.txt
\* (a file is named by its number)
SyntheticDirs == { {}, {1, 2} }

HeaderLine == <<"head", "relation", "tail", "score">>

\* the lines of a small generated file: entries (two with one key and
\* different scores, one with a fifth field and a tail its relation's rule
\* rejects), a line with too few fields and a line whose score is no number
DataLines ==
    { <<"e1", "r1", "e2", "0.9">>,
      <<"e1", "r2", "e3", "0.5">>,
      <<"e1", "r1", "e2", "0.12346">>,
      <<"e2", "dblp:publishedInYear", "e3", "0.9", "x">>,
      <<"e1", "r1", "e2">>,
      <<"e1", "r2", "e3", "abc">> }

GeneratedFiles ==
    {<<>>} \cup { <<f>> \o d : f \in {HeaderLine, <<"e1", "r2", "e3", "0.5">>},
                              d \in SeqsUpTo(DataLines, MaxLines) }

\* the i-th line of a large file: distinct keys for distinct i up to
\* Len(Ids)^3
BigLine(i) ==
    LET k == i - 1
        n == Len(Ids)
    IN  <<Ids[((k \div (n * n)) % n) + 1], Ids[((k \div n) % n) + 1],
          Ids[(k % n) + 1], "0.5">>

\* MidN entries with pairwise distinct keys
MidFile == <<HeaderLine>> \o [i \in 1..MidN |-> BigLine(i)]

\* BigN entries, the last one repeating the key of the first
BigFile == <<HeaderLine>> \o [i \in 1..BigN |-> IF i = BigN THEN BigLine(1) ELSE BigLine(i)]

LargeGeneratedFiles ==
    { MidFile, BigFile,
      <<HeaderLine>>,
      <<HeaderLine, <<"e1", "r1", "e2", "0.9">>, <<"e1", "r1", "e2", "0.12346">>>>,
      <<HeaderLine, <<"e1", "r1", "e2", "0.9">>, <<"e1", "r2", "e3", "0.5">>>> }

\* the lines of kg_triples_ids.txt: triples and a line of two fields
RefLines ==
    { <<"e1", "r1", "e2">>, <<"e2", "r3", "e1">>, <<"e1", "r1">> }

RefFiles == SeqsUpTo(RefLines, MaxRefLines)

LargeRefFiles ==
    { <<>>, <<<<"e1", "r1", "e2">>>>, <<<<"e01", "e01", "e02">>, <<"e1", "r1">>>> }

\* what one str hash may identify: nothing, or the two keys of the example
HashCollisions == { {}, {Key("e1", "r1", "e2"), Key("e1", "r2", "e3")} }

\* a cell of the last row of training_log.csv: a number (an epoch, or a loss
\* in ten-thousandths), text that is no number, or no such column
Cell(kind, v) == [kind |-> kind, v |-> v]

\* training_log.csv: absent, unreadable as CSV, without rows, or with a last
\* row
LogFiles ==
    { [exists |-> FALSE, parses |-> FALSE, empty |-> TRUE, row |-> <<>>],
      [exists |-> TRUE, parses |-> FALSE, empty |-> TRUE, row |-> <<>>],
      [exists |-> TRUE, parses |-> TRUE, empty |-> TRUE, row |-> <<>>] }
    \cup
    { [exists |-> TRUE, parses |-> TRUE, empty |-> FALSE, row |-> r] :
        r \in { <<Cell("num", 5), Cell("num", 6931), Cell("num", 12000)>>,
                <<Cell("text", 0), Cell("num", 6931), Cell("num", 12000)>>,
                <<Cell("num", 5), Cell("text", 0), Cell("num", 12000)>>,
                <<Cell("num", 5), Cell("nocol", 0), Cell("text", 0)>> } }

---------------------------------------------------------------------------
(* Generated-batch reader, lines 46-54 *)

\* len(parts) >= 4 and float(parts[3]) does not raise
LineOk(parts) == Len(parts) >= 4 /\ IsFloat(parts[4])

\* the tuple (h, r, t, score) of line 53
ToEntry(parts) == <<parts[1], parts[2], parts[3], ParseFloat(parts[4])>>

\* the tuples appended at line 53, in file order (<<>> \o makes the function
\* a tuple, which TLC indexes in constant time)
Entries(kept) == <<>> \o [i \in 1..Len(kept) |-> ToEntry(kept[i])]

\* next(f, None) skips the first line, whatever it is
ParseBatch(content) ==
    Entries(SelectSeq(IF Len(content) = 0 THEN <<>> ELSE Tail(content), LineOk))

---------------------------------------------------------------------------
(* Metrics engine, lines 80-128 *)

EntryKey(e) == Key(e[1], e[2], e[3])

\* hash(f"{h}\t{r}\t{t}") not in real_triples_set (lines 85, 140)
NotInRealSet(e, rts) == Hash(EntryKey(e)) \notin rts

\* lines 82-88 with the fallback branch counting nothing as novel
NovelCount_FallbackZero(triples, rts, active) ==
    IF active
    THEN Cardinality({i \in DOMAIN triples : NotInRealSet(triples[i], rts)})
    ELSE 0

\* lines 82-88
NovelCount(triples, rts, active) ==
    IF active
    THEN Cardinality({i \in DOMAIN triples : NotInRealSet(triples[i], rts)})
    ELSE Len(triples)

\* line 94 with the score kept in the key
UniqueTriples_WithScore(triples) ==
    Cardinality({<<EntryKey(triples[i]), triples[i][4]>> : i \in DOMAIN triples})

\* line 94
UniqueTriples(triples) == Cardinality({EntryKey(triples[i]) : i \in DOMAIN triples})

\* the keys of rel_counts, line 97
BatchRelations(triples) == {triples[i][2] : i \in DOMAIN triples}

\* rel_counts[rel]
RelCount(triples, rel) == Cardinality({i \in DOMAIN triples : triples[i][2] = rel})

\* line 99
TotalRelations(rels) == IF rels # {} THEN Cardinality(rels) ELSE DefaultVocabulary

\* lines 119-124
IsValid(e) ==
    LET rule_tail == RuleTail(e[2])
    IN  IF rule_tail # ""
        THEN IF rule_tail = "year" /\ ~IsDigit(e[3]) THEN FALSE
             ELSE IF rule_tail = "author" /\ ~ContainsAuthor(e[3]) THEN FALSE
             ELSE TRUE
        ELSE TRUE

\* sum(score ...) over triples[lo..hi], line 108
RECURSIVE SumScores(_, _, _)
SumScores(triples, lo, hi) ==
    IF lo > hi THEN 0
    ELSE IF lo = hi THEN triples[lo][4]
    ELSE LET mid == (lo + hi) \div 2
         IN  SumScores(triples, lo, mid) + SumScores(triples, mid + 1, hi)

Metrics(triples, rts, rels, active) ==
    LET total == Len(triples)
        novel_count == NovelCount(triples, rts, active)
    IN  [ total |-> total,
          novel_count |-> novel_count,
          overlap_count |-> total - novel_count,
          unique_triples |-> UniqueTriples(triples),
          used_relations |-> Cardinality(BatchRelations(triples)),
          total_relations |-> TotalRelations(rels),
          score_sum |-> SumScores(triples, 1, total),
          valid_count |-> Cardinality({i \in DOMAIN triples : IsValid(triples[i])}) ]

NoMetrics == [ total |-> 0, novel_count |-> 0, overlap_count |-> 0, unique_triples |-> 0,
               used_relations |-> 0, total_relations |-> 0, score_sum |-> 0,
               valid_count |-> 0 ]

\* lines 102-106: one entry per relation of the batch, sorted by relation
FreqEntry(rel, cnt, total) == [relation |-> rel, count |-> cnt, percent |-> Pct(cnt, total)]

FreqTable(triples, sorted) ==
    [i \in 1..Len(sorted) |-> FreqEntry(sorted[i], RelCount(triples, sorted[i]), Len(triples))]

\* sorted(rels)
SortedRelations(rels) == SelectSeq(RelOrder, LAMBDA r : r \in rels)

\* (the singleton sets bind rels and sorted to values, evaluated once)
RelationFreq(triples) ==
    CHOOSE table \in { FreqTable(triples, sorted) :
                         sorted \in { SortedRelations(rels) :
                                        rels \in {BatchRelations(triples)} } } : TRUE

---------------------------------------------------------------------------
(* Hypothesis sampler, lines 130-148 *)

\* lines 138-140
IsNovelFlag(e, rts, active) == IF active THEN NotInRealSet(e, rts) ELSE TRUE

\* lines 134-148
Hypothesis(e, names, rts, active) ==
    [ head |-> Get(names, e[1], e[1]),
      relation |-> StripDblp(e[2]),
      tail |-> Get(names, e[3], e[3]),
      score |-> FormatScore(e[4]),
      is_novel |-> IsNovelFlag(e, rts, active) ]

\* the loop left at i > 200
SampleSize_OffByOne(total) == Min(total, HypothesisCap + 1)

\* the loop of lines 131-148, left at i >= 200
SampleSize(total) == Min(total, HypothesisCap)

DecodedHypotheses(triples, names, rts, active) ==
    [i \in 1..SampleSize(Len(triples)) |-> Hypothesis(triples[i], names, rts, active)]

---------------------------------------------------------------------------
(* Training status, lines 150-159 *)

NoTraining == [epoch |-> 0, d_loss |-> 0, g_loss |-> 0]

\* int(x) / float(x) of a cell raises
Raises(cell) == cell.kind = "text"

\* last_row.get(col, 0)
CellValue(cell) == IF cell.kind = "num" THEN cell.v ELSE 0

\* the three assignments of lines 156-158 run in order; the first that raises
\* ends the block (except: pass) and keeps what was assigned before it
ReadTraining(log) ==
    IF ~log.exists \/ ~log.parses \/ log.empty THEN NoTraining
    ELSE LET e == log.row[1]
             d == log.row[2]
             g == log.row[3]
         IN  IF Raises(e) THEN NoTraining
             ELSE IF Raises(d) THEN [NoTraining EXCEPT !.epoch = CellValue(e)]
             ELSE IF Raises(g)
                  THEN [NoTraining EXCEPT !.epoch = CellValue(e), !.d_loss = CellValue(d)]
             ELSE [epoch |-> CellValue(e), d_loss |-> CellValue(d), g_loss |-> CellValue(g)]

---------------------------------------------------------------------------
(* Report assembler, lines 161-180 (last_updated, the wall clock, left out) *)

Stats(m, names) ==
    [ novelty |-> Pct(m.novel_count, m.total),
      train_overlap |-> Pct(m.overlap_count, m.total),
      uniqueness |-> Pct(m.unique_triples, m.total),
      relation_diversity |-> Pct(m.used_relations, m.total_relations),
      avg_distance |-> IF m.total > 0 THEN RoundDiv(m.score_sum, 10 * m.total, 1) ELSE 0,
      schema_validity |-> Pct(m.valid_count, m.total),
      total_generated |-> m.total,
      total_knowledge_base |-> Cardinality(names) ]

DashboardData(m, freq, hyps, status, names) ==
    [ training_status |-> status,
      stats |-> Stats(m, names),
      relation_freq |-> freq,
      hypotheses |-> hyps ]

---------------------------------------------------------------------------
(* The run *)

Init ==
    /\ pc = "check_mappings"
    /\ mappings_file \in MappingFiles
    /\ synthetic_dir \in SyntheticDirs
    /\ hash_collide \in HashCollisions
    /\ id_to_name = {}
    /\ latest_file = 0
    /\ synthetic_triples = <<>>
    /\ real_exists = FALSE
    /\ real_file = <<>>
    /\ ref_pos = 0
    /\ real_triples_set = {}
    /\ all_relations = {}
    /\ novelty_check_active = FALSE
    /\ metrics = NoMetrics
    /\ relation_freq = <<>>
    /\ decoded_hypotheses = <<>>
    /\ log_file = CHOOSE l \in LogFiles : ~l.exists
    /\ training = NoTraining
    /\ output = <<>>

\* lines 24-26: no mappings file, the run returns
CheckMappings ==
    /\ pc = "check_mappings"
    /\ pc' = IF mappings_file.exists THEN "load_mappings" ELSE "returned"
    /\ UNCHANGED <<mappings_file, synthetic_dir, hash_collide, id_to_name, latest_file,
                   synthetic_triples, real_exists, real_file, ref_pos, real_triples_set,
                   all_relations, novelty_check_active, metrics, relation_freq,
                   decoded_hypotheses, log_file, training, output>>

\* lines 29-35 with a handler that goes on with an empty mapping
LoadMappings_NoReturn ==
    /\ pc = "load_mappings"
    /\ id_to_name' = IF mappings_file.parses /\ mappings_file.has_id2ent
                      THEN mappings_file.id2ent ELSE {}
    /\ pc' = "find_generated"
    /\ UNCHANGED <<mappings_file, synthetic_dir, hash_collide, latest_file,
                   synthetic_triples, real_exists, real_file, ref_pos, real_triples_set,
                   all_relations, novelty_check_active, metrics, relation_freq,
                   decoded_hypotheses, log_file, training, output>>

\* lines 29-35: any exception of the load returns
LoadMappings ==
    /\ pc = "load_mappings"
    /\ IF mappings_file.parses
       THEN /\ id_to_name' = IF mappings_file.has_id2ent THEN mappings_file.id2ent ELSE {}
            /\ pc' = "find_generated"
       ELSE /\ id_to_name' = id_to_name
            /\ pc' = "returned"
    /\ UNCHANGED <<mappings_file, synthetic_dir, hash_collide, latest_file,
                   synthetic_triples, real_exists, real_file, ref_pos, real_triples_set,
                   all_relations, novelty_check_active, metrics, relation_freq,
                   decoded_hypotheses, log_file, training, output>>

\* lines 37-42: sorted(glob)[-1], or the run returns
FindGenerated ==
    /\ pc = "find_generated"
    /\ IF synthetic_dir = {}
       THEN /\ latest_file' = latest_file
            /\ pc' = "returned"
       ELSE /\ latest_file' = Max(synthetic_dir)
            /\ pc' = "read_batch"
    /\ UNCHANGED <<mappings_file, synthetic_dir, hash_collide, id_to_name,
                   synthetic_triples, real_exists, real_file, ref_pos, real_triples_set,
                   all_relations, novelty_check_active, metrics, relation_freq,
                   decoded_hypotheses, log_file, training, output>>

\* lines 43-54, on a latest file whose content is one of `files`
ReadBatch(files) ==
    /\ pc = "read_batch"
    /\ \E content \in files : synthetic_triples' = ParseBatch(content)
    /\ pc' = "check_real"
    /\ UNCHANGED <<mappings_file, synthetic_dir, hash_collide, id_to_name, latest_file,
                   real_exists, real_file, ref_pos, real_triples_set,
                   all_relations, novelty_check_active, metrics, relation_freq,
                   decoded_hypotheses, log_file, training, output>>

\* lines 61-64: the reference file is there and is opened (one of `files`)
OpenReal(files) ==
    /\ pc = "check_real"
    /\ real_exists' = TRUE
    /\ \E lines \in files : real_file' = lines
    /\ pc' = "load_real"
    /\ UNCHANGED <<mappings_file, synthetic_dir, hash_collide, id_to_name, latest_file,
                   synthetic_triples, ref_pos, real_triples_set,
                   all_relations, novelty_check_active, metrics, relation_freq,
                   decoded_hypotheses, log_file, training, output>>

\* lines 75-77: the reference file is not there
RealMissing ==
    /\ pc = "check_real"
    /\ real_exists' = FALSE
    /\ novelty_check_active' = FALSE
    /\ pc' = "metrics"
    /\ UNCHANGED <<mappings_file, synthetic_dir, hash_collide, id_to_name, latest_file,
                   synthetic_triples, real_file, ref_pos, real_triples_set,
                   all_relations, metrics, relation_freq,
                   decoded_hypotheses, log_file, training, output>>

\* lines 65-69: one turn of the loop
LoadRealLine ==
    /\ pc = "load_real"
    /\ ref_pos < Len(real_file)
    /\ LET p == real_file[ref_pos + 1]
       IN  IF Len(p) = 3
           THEN /\ real_triples_set' = real_triples_set \cup {Hash(Key(p[1], p[2], p[3]))}
                /\ all_relations' = all_relations \cup {p[2]}
           ELSE UNCHANGED <<real_triples_set, all_relations>>
    /\ ref_pos' = ref_pos + 1
    /\ UNCHANGED <<pc, mappings_file, synthetic_dir, hash_collide, id_to_name, latest_file,
                   synthetic_triples, real_exists, real_file,
                   novelty_check_active, metrics, relation_freq,
                   decoded_hypotheses, log_file, training, output>>

\* line 70: the loop has ended
LoadRealDone ==
    /\ pc = "load_real"
    /\ ref_pos = Len(real_file)
    /\ novelty_check_active' = TRUE
    /\ pc' = "metrics"
    /\ UNCHANGED <<mappings_file, synthetic_dir, hash_collide, id_to_name, latest_file,
                   synthetic_triples, real_exists, real_file, ref_pos, real_triples_set,
                   all_relations, metrics, relation_freq,
                   decoded_hypotheses, log_file, training, output>>

\* lines 71-74: MemoryError while the line after ref_pos is processed; the
\* handler assigns real_triples_set and novelty_check_active and nothing else
LoadRealMemoryError ==
    /\ pc = "load_real"
    /\ ref_pos < Len(real_file)
    /\ real_triples_set' = {}
    /\ novelty_check_active' = FALSE
    /\ pc' = "metrics"
    /\ UNCHANGED <<mappings_file, synthetic_dir, hash_collide, id_to_name, latest_file,
                   synthetic_triples, real_exists, real_file, ref_pos,
                   all_relations, metrics, relation_freq,
                   decoded_hypotheses, log_file, training, output>>

\* lines 80-128
ComputeMetrics ==
    /\ pc = "metrics"
    /\ metrics' = Metrics(synthetic_triples, real_triples_set, all_relations,
                          novelty_check_active)
    /\ relation_freq' = RelationFreq(synthetic_triples)
    /\ pc' = "hypotheses"
    /\ UNCHANGED <<mappings_file, synthetic_dir, hash_collide, id_to_name, latest_file,
                   synthetic_triples, real_exists, real_file, ref_pos, real_triples_set,
                   all_relations, novelty_check_active,
                   decoded_hypotheses, log_file, training, output>>

\* lines 130-148
SampleHypotheses ==
    /\ pc = "hypotheses"
    /\ decoded_hypotheses' = DecodedHypotheses(synthetic_triples, id_to_name,
                                               real_triples_set, novelty_check_active)
    /\ pc' = "training"
    /\ UNCHANGED <<mappings_file, synthetic_dir, hash_collide, id_to_name, latest_file,
                   synthetic_triples, real_exists, real_file, ref_pos, real_triples_set,
                   all_relations, novelty_check_active, metrics, relation_freq,
                   log_file, training, output>>

\* lines 150-159
ReadLog ==
    /\ pc = "training"
    /\ \E log \in LogFiles :
          /\ log_file' = log
          /\ training' = ReadTraining(log)
    /\ pc' = "write"
    /\ UNCHANGED <<mappings_file, synthetic_dir, hash_collide, id_to_name, latest_file,
                   synthetic_triples, real_exists, real_file, ref_pos, real_triples_set,
                   all_relations, novelty_check_active, metrics, relation_freq,
                   decoded_hypotheses, output>>

\* lines 161-183
WriteReport ==
    /\ pc = "write"
    /\ output' = Append(output, DashboardData(metrics, relation_freq, decoded_hypotheses,
                                              training, id_to_name))
    /\ pc' = "done"
    /\ UNCHANGED <<mappings_file, synthetic_dir, hash_collide, id_to_name, latest_file,
                   synthetic_triples, real_exists, real_file, ref_pos, real_triples_set,
                   all_relations, novelty_check_active, metrics, relation_freq,
                   decoded_hypotheses, log_file, training>>

Next ==
    \/ CheckMappings
    \/ LoadMappings
    \/ FindGenerated
    \/ ReadBatch(GeneratedFiles)
    \/ OpenReal(RefFiles)
    \/ RealMissing
    \/ LoadRealLine
    \/ LoadRealDone
    \/ LoadRealMemoryError
    \/ ComputeMetrics
    \/ SampleHypotheses
    \/ ReadLog
    \/ WriteReport

Spec == Init /\ [][Next]_vars

\* the same run on the large generated files
NextLarge ==
    \/ CheckMappings
    \/ LoadMappings
    \/ FindGenerated
    \/ ReadBatch(LargeGeneratedFiles)
    \/ OpenReal(LargeRefFiles)
    \/ RealMissing
    \/ LoadRealLine
    \/ LoadRealDone
    \/ LoadRealMemoryError
    \/ ComputeMetrics
    \/ SampleHypotheses
    \/ ReadLog
    \/ WriteReport

SpecLarge == Init /\ [][NextLarge]_vars

---------------------------------------------------------------------------
(* The reference loader as a function of the file and of where it failed *)

ValidRefLines(lines, n) == {lines[i] : i \in {j \in 1..n : Len(lines[j]) = 3}}

\* what lines 57-77 leave behind: `fail` = 0 when the loop ended, else the
\* number of the line at which MemoryError was raised
RefOutcome(lines, fail) ==
    IF fail = 0
    THEN [ rts |-> {Hash(Key(p[1], p[2], p[3])) : p \in ValidRefLines(lines, Len(lines))},
           rels |-> {p[2] : p \in ValidRefLines(lines, Len(lines))},
           active |-> TRUE ]
    ELSE [ rts |-> {},
           rels |-> {p[2] : p \in ValidRefLines(lines, fail - 1)},
           active |-> FALSE ]

RefMissingOutcome == [rts |-> {}, rels |-> {}, active |-> FALSE]

RefOutcomes ==
    {RefMissingOutcome}
    \cup UNION { {RefOutcome(lines, fail) : fail \in 0..Len(lines)} : lines \in RefFiles }

\* the report the run would have written had the loader left `o` behind
ReportWith(o) ==
    DashboardData(Metrics(synthetic_triples, o.rts, o.rels, o.active),
                  relation_freq,
                  DecodedHypotheses(synthetic_triples, id_to_name, o.rts, o.active),
                  training, id_to_name)

\* the actions of the loader and RefOutcome agree
LoaderAgrees ==
    pc \in {"metrics", "hypotheses", "training", "write", "done"} =>
        [rts |-> real_triples_set, rels |-> all_relations, active |-> novelty_check_active]
          = IF ~real_exists THEN RefMissingOutcome
            ELSE IF novelty_check_active THEN RefOutcome(real_file, 0)
            ELSE RefOutcome(real_file, ref_pos + 1)

---------------------------------------------------------------------------
(* Vocabulary of the properties *)

Written == Len(output) = 1

Terminated == pc \in {"returned", "done"}

MetricsDone == pc \in {"hypotheses", "training", "write", "done"}

\* the keys of the reference file's well-formed lines
RefKeys == {Key(p[1], p[2], p[3]) : p \in ValidRefLines(real_file, Len(real_file))}

\* the keys of the batch are pairwise distinct
PairwiseDistinct(triples) ==
    \A i \in DOMAIN triples : \A j \in (i + 1)..Len(triples) :
        EntryKey(triples[i]) # EntryKey(triples[j])

\* every cell of the last row was read without an exception
WholeRowRead(log) ==
    /\ log.exists /\ log.parses /\ ~log.empty
    /\ \A c \in 1..3 : ~Raises(log.row[c])

---------------------------------------------------------------------------
(* C1: with the reference corpus loaded and a non-empty batch, the novel    *)
(* count is the number of entries whose key is not a key of the reference   *)
(* file, the overlap count the number of entries whose key is one, and the  *)
(* two percentages add up to 100.                                           *)
C1_NovelCountIsNonMembers ==
    (MetricsDone /\ novelty_check_active /\ metrics.total > 0) =>
        /\ metrics.novel_count =
             Cardinality({i \in DOMAIN synthetic_triples :
                             EntryKey(synthetic_triples[i]) \notin RefKeys})
        /\ metrics.overlap_count =
             Cardinality({i \in DOMAIN synthetic_triples :
                             EntryKey(synthetic_triples[i]) \in RefKeys})
        /\ metrics.novel_count + metrics.overlap_count = metrics.total
        /\ Written => output[1].stats.novelty + output[1].stats.train_overlap = 10000

(* C2: with the reference corpus unavailable (file missing, or load ended   *)
(* by MemoryError after any number of lines), a non-empty batch is reported *)
(* with novelty 100 and overlap 0 and every hypothesis is flagged novel.    *)
C2_UnavailableAllNovel ==
    (Written /\ ~novelty_check_active /\ metrics.total > 0) =>
        /\ output[1].stats.novelty = 10000
        /\ output[1].stats.train_overlap = 0
        /\ \A i \in DOMAIN output[1].hypotheses : output[1].hypotheses[i].is_novel

\* a load ended by MemoryError after a line that holds a key of the batch
C2_Witness ==
    /\ Written /\ ~novelty_check_active /\ real_exists /\ ref_pos >= 1
    /\ \E i \in DOMAIN synthetic_triples :
          EntryKey(synthetic_triples[i])
            \in {Key(p[1], p[2], p[3]) : p \in ValidRefLines(real_file, ref_pos)}

(* C3: the report is written at most once, only as the last step, and a     *)
(* finished run has written it exactly when the mappings file exists and    *)
(* parses and a generated file exists; whatever the reference file and the  *)
(* training log are, a run that has not finished can take a step.           *)
C3_ReportWrittenIffInputs ==
    /\ Len(output) <= 1
    /\ Written => pc = "done"
    /\ Terminated =>
          (Written <=> (mappings_file.exists /\ mappings_file.parses /\ synthetic_dir # {}))
    /\ ~Terminated => ENABLED Next

\* written although the load ran out of memory and the log is unreadable
C3_Witness ==
    /\ Written /\ real_exists /\ ~novelty_check_active
    /\ log_file.exists /\ ~log_file.parses

(* C4: the report tells the novelty mode: had the loader ended in the other *)
(* mode (check active or not), with the same batch, mapping and training    *)
(* log, the report would differ. (Stated for the non-empty batches, where   *)
(* the report holds a novelty figure to tell apart.)                        *)
C4_ModeObservable ==
    (Written /\ Len(synthetic_triples) > 0) =>
        \A o \in RefOutcomes :
            o.active # novelty_check_active => ReportWith(o) # output[1]

(* C5: a run whose parsed batch is empty still writes the report, with      *)
(* novelty, overlap, uniqueness, relation diversity, average confidence and *)
(* schema validity 0 and with no relation frequency and no hypothesis.      *)
C5_EmptyBatchAllZero ==
    (pc = "done" /\ latest_file # 0 /\ Len(synthetic_triples) = 0) =>
        /\ Written
        /\ output[1].stats.novelty = 0
        /\ output[1].stats.train_overlap = 0
        /\ output[1].stats.uniqueness = 0
        /\ output[1].stats.relation_diversity = 0
        /\ output[1].stats.avg_distance = 0
        /\ output[1].stats.schema_validity = 0
        /\ output[1].stats.total_generated = 0
        /\ output[1].relation_freq = <<>>
        /\ output[1].hypotheses = <<>>

\* an empty batch against a loaded reference corpus with relations
C5_Witness ==
    /\ Written /\ Len(synthetic_triples) = 0
    /\ novelty_check_active /\ all_relations # {}

C7_SampleIsPrefix ==
    Written =>
        LET hyps == output[1].hypotheses
            n == Len(synthetic_triples)
        IN  /\ Len(hyps) = IF n < 200 THEN n ELSE 200
            /\ \A i \in DOMAIN hyps :
                  /\ hyps[i].head = Get(id_to_name, synthetic_triples[i][1], synthetic_triples[i][1])
                  /\ hyps[i].relation = StripDblp(synthetic_triples[i][2])
                  /\ hyps[i].tail = Get(id_to_name, synthetic_triples[i][3], synthetic_triples[i][3])
                  /\ hyps[i].score = RoundDiv(synthetic_triples[i][4], 10, 1)
                  /\ hyps[i].is_novel =
                        (novelty_check_active =>
                            Hash(EntryKey(synthetic_triples[i])) \notin real_triples_set)
            /\ n <= 200 =>
                  Cardinality({i \in DOMAIN hyps : hyps[i].is_novel}) = metrics.novel_count

\* a batch over the cap, cut to 200, with a known triple among the sample
C7_Witness ==
    /\ Written /\ novelty_check_active
    /\ Len(synthetic_triples) > 200
    /\ Len(output[1].hypotheses) = 200
    /\ \E i \in DOMAIN output[1].hypotheses : ~output[1].hypotheses[i].is_novel

(* C8: with the reference corpus unavailable (file missing, or load ended   *)
(* by MemoryError after any number of lines), relation diversity is         *)
(* 100 * (distinct relations of the batch) / 15.                            *)
C8_UnavailableUsesDefaultVocabulary ==
    (Written /\ ~novelty_check_active) =>
        output[1].stats.relation_diversity =
            RoundDiv(Cardinality({synthetic_triples[i][2] : i \in DOMAIN synthetic_triples}),
                     15, 10000)

(* C9: with the reference corpus loaded and a non-empty vocabulary,         *)
(* relation diversity is 100 * (vocabulary relations that occur in the      *)
(* batch) / (vocabulary size), hence between 0 and 100.                     *)
C9_DiversityIsVocabularyFraction ==
    (Written /\ novelty_check_active /\ all_relations # {}) =>
        /\ output[1].stats.relation_diversity =
              RoundDiv(Cardinality({r \in all_relations :
                                       \E i \in DOMAIN synthetic_triples :
                                           synthetic_triples[i][2] = r}),
                       Cardinality(all_relations), 10000)
        /\ output[1].stats.relation_diversity >= 0
        /\ output[1].stats.relation_diversity <= 10000

(* C10: the training status of the report is all zeros unless the whole     *)
(* last row of the log was read without a failure.                          *)
C10_StatusAllOrNothing ==
    Written =>
        (WholeRowRead(log_file) \/ output[1].training_status = NoTraining)

====
